---------------------------- MODULE Spec2Model ----------------------------
(***************************************************************************)
(* Model of src/app.py: the adaptive JPEG compressor                       *)
(* (compress_image_adaptively), the horizontal tiler                       *)
(* (split_image_horizontally) and the per-file worker (process_single)     *)
(* with the task producer (enqueue_tasks) and the tracker blob.            *)
(*                                                                         *)
(* Three specifications share the module's variables:                      *)
(*   SpecCompress  one call of compress_image_adaptively                   *)
(*   SpecTiler     one call of split_image_horizontally                    *)
(*   Spec          enqueue_tasks, the task queue and process_single runs   *)
(***************************************************************************)
EXTENDS Integers, Sequences, FiniteSets, Bags, TLC

VARIABLES
    \* ---- compress_image_adaptively (one call)
    c_pc,           \* "start" | "loop" | "fits" | "returned" | "raised"
    c_in,           \* [original_size, pixels]: os.path.getsize and width*height
    c_downscaled,   \* whether the pre-downscale of lines 57-61 ran
    resize_factor,  \* Python float, see Float below
    quality,        \* int
    temp_file,      \* the candidate last saved at temp_path, or NoFile
    output_file,    \* what shutil.copyfile left at output_path, or NoFile
    encoded,        \* every candidate saved so far, in order (history)
    \* ---- split_image_horizontally (one call)
    t_pc,           \* "call" | "returned" | "raised"
    t_h,            \* img.shape[0]
    t_w,            \* img.shape[1]
    t_parts,        \* the parts argument
    tiles,          \* the returned list
    t_pdf,          \* tiles_to_pdf: "none" | "written" | "raised"
    t_pages,        \* tiles_to_pdf: the pages of the written document
    \* ---- the buckets, the queue and the two handlers
    req,            \* the /enqueue_tasks request: [max_files, horizontal_parts]
    listing,        \* the object names list_blobs returns, in its order
    tracker_blob,   \* the tracker object: [exists, text]
    outputs,        \* names of the objects uploaded to the output bucket
    queue,          \* Cloud Tasks queue: a bag of task payloads
    e_pc,           \* enqueue_tasks: "idle" | "create"
    e_calls,        \* number of /enqueue_tasks requests received
    e_processed,    \* enqueue_tasks.processed (the tracker as loaded)
    e_files,        \* enqueue_tasks.files
    e_created,      \* payloads create_task accepted in the current call
    e_resp,         \* the last /enqueue_tasks response
    w_pc,           \* process_single, per worker: position in the handler
    w_run,          \* process_single, per worker: locals and what the run did
    \* ---- update_tracker called twice for one name
    k_pc,           \* "mark" | "reload" | "done"
    k_existing,     \* the set first passed as `existing`
    k_name,         \* the file name marked
    k_loaded,       \* load_tracker() after the last write
    k_written       \* the objects written so far, in order

c_vars == <<c_pc, c_in, c_downscaled, resize_factor, quality, temp_file,
            output_file, encoded>>
t_vars == <<t_pc, t_h, t_w, t_parts, tiles, t_pdf, t_pages>>
e_vars == <<e_pc, e_calls, e_processed, e_files, e_created, e_resp>>
p_vars == <<req, listing, tracker_blob, outputs, queue, e_vars, w_pc, w_run>>
k_vars == <<k_pc, k_existing, k_name, k_loaded, k_written>>
vars == <<c_vars, t_vars, p_vars, k_vars>>

NoFile == [none |-> TRUE]

Last(s) == s[Len(s)]

(***************************************************************************)
(* Python floats are IEEE-754 doubles.  resize_factor only takes values in *)
(* (0.25, 1.0], which are multiples of 2^-57, so a float is held as the    *)
(* integer  hi * 2^30 + lo  counting units of 2^-57 (two limbs, because    *)
(* TLC's integers are 32 bits wide).  Subtraction is exact                 *)
(* subtraction followed by round-to-nearest-even to a 53-bit significand.  *)
(***************************************************************************)
Limb == 2^30

\* the literal 1.0 (line 63): 2^57 units
F_1_0 == [hi |-> 2^27, lo |-> 0]

\* the literal 0.5 (line 66): 2^56 units
min_resize == [hi |-> 2^26, lo |-> 0]

\* the literal 0.05 (line 79): the double 0x1.999999999999ap-5, which is
\* 7205759403792794 units = 6710886 * 2^30 + 429496730
F_0_05 == [hi |-> 6710886, lo |-> 429496730]

\* a > b on floats (line 78)
FGt(a, b) == a.hi > b.hi \/ (a.hi = b.hi /\ a.lo > b.lo)

\* units in the last place of a double whose value has high limb hi
FUlp(hi) ==
    IF hi >= 2^27 THEN 32
    ELSE IF hi >= 2^26 THEN 16
    ELSE IF hi >= 2^25 THEN 8
    ELSE IF hi >= 2^24 THEN 4
    ELSE IF hi >= 2^23 THEN 2
    ELSE 1

\* round an exact value to the nearest double, ties to even
FRound(e) ==
    LET u    == FUlp(e.hi)
        r    == e.lo % u
        q    == e.lo \div u
        down == e.lo - r
        up   == down + u
        lo2  == IF 2 * r < u THEN down
                ELSE IF 2 * r > u THEN up
                ELSE IF q % 2 = 0 THEN down ELSE up
    IN  IF lo2 >= Limb THEN [hi |-> e.hi + 1, lo |-> lo2 - Limb]
        ELSE [hi |-> e.hi, lo |-> lo2]

\* a - b on floats, for a >= b (line 79)
FSub(a, b) ==
    LET d      == a.lo - b.lo
        borrow == IF d < 0 THEN 1 ELSE 0
    IN  FRound([hi |-> a.hi - b.hi - borrow, lo |-> d + borrow * Limb])

(***************************************************************************)
(* compress_image_adaptively                                               *)
(***************************************************************************)
\* line 25
MAX_FILE_SIZE == 31457280
\* the quality floor one step lower
min_quality_Lower == 90 - 5
\* line 65
min_quality == 90
\* line 64
InitialQuality == 95
\* line 57: current_megapixels > 20, i.e. width * height > 20 * 1_000_000
MegapixelLimit == 20000000

\* Encoded sizes tried around the budget: MAX_FILE_SIZE -+ SizeSpread
SizeSpread == 1
Sizes == (MAX_FILE_SIZE - SizeSpread)..(MAX_FILE_SIZE + SizeSpread)
OriginalSizes == {MAX_FILE_SIZE, MAX_FILE_SIZE + 1}
PixelCounts == {MegapixelLimit, MegapixelLimit + 1}

\* line 57
NeedsPreDownscale(original_size, pixels) ==
    original_size > MAX_FILE_SIZE /\ pixels > MegapixelLimit

\* line 74: os.path.getsize(temp_path) <= MAX_FILE_SIZE
Fits_Reversed(size) == size >= MAX_FILE_SIZE
Fits(size) == size <= MAX_FILE_SIZE

\* line 76: quality > min_quality
CanLowerQuality_Ge(q) == q >= min_quality
CanLowerQuality(q) == q > min_quality

\* line 78: resize_factor > min_resize
CanLowerResize(rf) == FGt(rf, min_resize)

\* line 79 with += in place of -=
FAdd(a, b) ==
    LET s     == a.lo + b.lo
        carry == IF s >= Limb THEN 1 ELSE 0
    IN  FRound([hi |-> a.hi + b.hi + carry, lo |-> s - carry * Limb])

LowerResize_Add(rf) == FAdd(rf, F_0_05)

\* line 79: resize_factor -= 0.05
LowerResize(rf) == FSub(rf, F_0_05)

\* the loop with the two elif branches in the other order
CompressIteration_ResizeFirst(st, size) ==
    LET cand == [resize_factor |-> st.resize_factor, quality |-> st.quality,
                 size |-> size]
    IN  IF Fits(size)
        THEN [next |-> "break", cand |-> cand,
              resize_factor |-> st.resize_factor, quality |-> st.quality]
        ELSE IF CanLowerResize(st.resize_factor)
        THEN [next |-> "continue", cand |-> cand,
              resize_factor |-> LowerResize(st.resize_factor),
              quality |-> st.quality]
        ELSE IF CanLowerQuality(st.quality)
        THEN [next |-> "continue", cand |-> cand,
              resize_factor |-> st.resize_factor, quality |-> st.quality - 5]
        ELSE [next |-> "raise", cand |-> cand,
              resize_factor |-> st.resize_factor, quality |-> st.quality]

\* the loop testing the budget only once quality has bottomed out
CompressIteration_KeepSearching(st, size) ==
    LET cand == [resize_factor |-> st.resize_factor, quality |-> st.quality,
                 size |-> size]
    IN  IF CanLowerQuality(st.quality)
        THEN [next |-> "continue", cand |-> cand,
              resize_factor |-> st.resize_factor, quality |-> st.quality - 5]
        ELSE IF Fits(size)
        THEN [next |-> "break", cand |-> cand,
              resize_factor |-> st.resize_factor, quality |-> st.quality]
        ELSE IF CanLowerResize(st.resize_factor)
        THEN [next |-> "continue", cand |-> cand,
              resize_factor |-> LowerResize(st.resize_factor),
              quality |-> st.quality]
        ELSE [next |-> "raise", cand |-> cand,
              resize_factor |-> st.resize_factor, quality |-> st.quality]

\* One pass of the while loop (lines 72-81) from loop state st =
\* [resize_factor, quality], the encoder producing `size` bytes.
\* next: "break" | "continue" | "raise".
CompressIteration(st, size) ==
    LET cand == [resize_factor |-> st.resize_factor, quality |-> st.quality,
                 size |-> size]
    IN  IF Fits(size)
        THEN [next |-> "break", cand |-> cand,
              resize_factor |-> st.resize_factor, quality |-> st.quality]
        ELSE IF CanLowerQuality(st.quality)
        THEN [next |-> "continue", cand |-> cand,
              resize_factor |-> st.resize_factor, quality |-> st.quality - 5]
        ELSE IF CanLowerResize(st.resize_factor)
        THEN [next |-> "continue", cand |-> cand,
              resize_factor |-> LowerResize(st.resize_factor),
              quality |-> st.quality]
        ELSE [next |-> "raise", cand |-> cand,
              resize_factor |-> st.resize_factor, quality |-> st.quality]

\* lines 50-69: open the image, pre-downscale, set up the search
CompressOpen ==
    /\ c_pc = "start"
    /\ c_downscaled' = NeedsPreDownscale(c_in.original_size, c_in.pixels)
    /\ resize_factor' = F_1_0
    /\ quality' = InitialQuality
    /\ temp_file' = NoFile
    /\ c_pc' = "loop"
    /\ UNCHANGED <<c_in, output_file, encoded, t_vars, p_vars, k_vars>>

\* lines 71-81: one pass of the loop
CompressLoop ==
    /\ c_pc = "loop"
    /\ \E size \in Sizes :
         LET r == CompressIteration(
                      [resize_factor |-> resize_factor, quality |-> quality],
                      size)
         IN  /\ temp_file' = r.cand
             /\ encoded' = Append(encoded, r.cand)
             /\ resize_factor' = r.resize_factor
             /\ quality' = r.quality
             /\ c_pc' = CASE r.next = "break" -> "fits"
                          [] r.next = "continue" -> "loop"
                          [] r.next = "raise" -> "raised"
    /\ UNCHANGED <<c_in, c_downscaled, output_file, t_vars, p_vars, k_vars>>

\* line 83
CompressCopy ==
    /\ c_pc = "fits"
    /\ output_file' = temp_file
    /\ c_pc' = "returned"
    /\ UNCHANGED <<c_in, c_downscaled, resize_factor, quality, temp_file,
                   encoded, t_vars, p_vars, k_vars>>

(***************************************************************************)
(* split_image_horizontally                                                *)
(***************************************************************************)
MaxHeight == 5
MaxWidth == 2

\* the division rounded up
FloorDiv_RoundUp(h, parts) ==
    IF parts > 0 THEN (h + parts - 1) \div parts
    ELSE -((h + (-parts) - 1) \div (-parts))

\* line 92: Python's h // parts (floor division), parts # 0
FloorDiv(h, parts) ==
    IF parts > 0 THEN h \div parts
    ELSE -((h + (-parts) - 1) \div (-parts))

\* the last tile cut like the others, the remainder rows dropped
TileAt_DropRemainder(h, w, parts, i) ==
    LET tile_height == FloorDiv(h, parts)
    IN  [y1 |-> i * tile_height, y2 |-> (i + 1) * tile_height,
         x1 |-> 0, x2 |-> w]

\* lines 95-97: the tile of loop index i (0-based); img[y1:y2, :] keeps
\* every column
TileAt(h, w, parts, i) ==
    LET tile_height == FloorDiv(h, parts)
    IN  [y1 |-> i * tile_height,
         y2 |-> IF i = parts - 1 THEN h ELSE (i + 1) * tile_height,
         x1 |-> 0,
         x2 |-> w]

\* the remainder rows returned as a tile of their own
split_image_horizontally_ExtraTile(h, w, parts) ==
    IF parts = 0 THEN [raised |-> TRUE, tiles |-> <<>>]
    ELSE LET tile_height == FloorDiv(h, parts)
             full == [k \in 1..parts |->
                        [y1 |-> (k - 1) * tile_height, y2 |-> k * tile_height,
                         x1 |-> 0, x2 |-> w]]
         IN  [raised |-> FALSE,
              tiles |-> IF parts > 0 /\ parts * tile_height < h
                        THEN Append(full, [y1 |-> parts * tile_height,
                                           y2 |-> h, x1 |-> 0, x2 |-> w])
                        ELSE full]

\* lines 89-99; h // 0 raises ZeroDivisionError, range(parts) is empty for
\* parts < 0
split_image_horizontally(h, w, parts) ==
    IF parts = 0 THEN [raised |-> TRUE, tiles |-> <<>>]
    ELSE [raised |-> FALSE,
          tiles |-> [k \in 1..parts |-> TileAt(h, w, parts, k - 1)]]

TilerSplit ==
    /\ t_pc = "call"
    /\ LET r == split_image_horizontally(t_h, t_w, t_parts)
       IN  /\ tiles' = r.tiles
           /\ t_pc' = IF r.raised THEN "raised" ELSE "returned"
    /\ UNCHANGED <<t_h, t_w, t_parts, t_pdf, t_pages, c_vars, p_vars, k_vars>>

(***************************************************************************)
(* tiles_to_pdf (lines 101-110)                                            *)
(***************************************************************************)
\* lines 104-107: the single-page PDF made from one tile; the page holds
\* the tile's pixels and has the tile's size
PageOf(tile) ==
    [image |-> tile, rows |-> tile.y2 - tile.y1, cols |-> tile.x2 - tile.x1]

\* the loop putting each page in front of the pages already there
RECURSIVE WriterLoop_Prepend(_, _)
WriterLoop_Prepend(writer, rest) ==
    IF rest = <<>> THEN writer
    ELSE WriterLoop_Prepend(<<PageOf(Head(rest))>> \o writer, Tail(rest))

\* lines 103-108: for tile in tiles: ... pdf_writer.append(byte_io)
RECURSIVE WriterLoop(_, _)
WriterLoop(writer, rest) ==
    IF rest = <<>> THEN writer
    ELSE WriterLoop(Append(writer, PageOf(Head(rest))), Tail(rest))

\* lines 101-110: the pages of the document written
tiles_to_pdf(tile_list) == WriterLoop(<<>>, tile_list)

\* a tile without rows: cv2.cvtColor and the PDF encoder are given an empty
\* image, and whether they raise is theirs to decide
HasEmptyTile(tile_list) ==
    \E k \in 1..Len(tile_list) : tile_list[k].y2 <= tile_list[k].y1

\* lines 101-110 on the list split_image_horizontally returned
TilerToPdf ==
    /\ t_pc = "returned"
    /\ t_pdf = "none"
    /\ \E ok \in (IF HasEmptyTile(tiles) THEN BOOLEAN ELSE {TRUE}) :
         IF ok
         THEN /\ t_pages' = tiles_to_pdf(tiles)
              /\ t_pdf' = "written"
         ELSE /\ t_pages' = <<>>
              /\ t_pdf' = "raised"
    /\ UNCHANGED <<t_pc, t_h, t_w, t_parts, tiles, c_vars, p_vars, k_vars>>

(***************************************************************************)
(* Object names.  A Python str is a tuple of one-character strings, so     *)
(* that basename, splitext, lower, rsplit, endswith and sorted are         *)
(* computed character by character.  The names of the model hold no        *)
(* whitespace and no line break.                                           *)
(***************************************************************************)
\* ord(c) for the characters the model's names use
Code(c) ==
    CASE c = "\n" -> 10 [] c = " " -> 32
      [] c = "." -> 46  [] c = "/" -> 47  [] c = "G" -> 71  [] c = "J" -> 74
      [] c = "P" -> 80  [] c = "_" -> 95  [] c = "a" -> 97  [] c = "b" -> 98
      [] c = "c" -> 99  [] c = "d" -> 100 [] c = "e" -> 101 [] c = "f" -> 102
      [] c = "g" -> 103 [] c = "i" -> 105 [] c = "j" -> 106 [] c = "l" -> 108
      [] c = "m" -> 109 [] c = "o" -> 111 [] c = "p" -> 112 [] c = "s" -> 115
      [] c = "t" -> 116

\* str.lower() on one character
LowerChar(c) ==
    CASE c = "G" -> "g" [] c = "J" -> "j" [] c = "P" -> "p" [] OTHER -> c

\* str.lower()
Lower(str) == [k \in 1..Len(str) |-> LowerChar(str[k])]

\* str.rfind(c) + 1: the 1-based place of the last c, 0 when there is none
RFind(str, c) ==
    LET at == {k \in 1..Len(str) : str[k] = c}
    IN  IF at = {} THEN 0 ELSE CHOOSE k \in at : \A j \in at : j <= k

\* a < b on str (code point order), as sorted() compares
RECURSIVE StrLess(_, _)
StrLess(a, b) ==
    IF a = <<>> THEN b # <<>>
    ELSE IF b = <<>> THEN FALSE
    ELSE IF Code(Head(a)) # Code(Head(b)) THEN Code(Head(a)) < Code(Head(b))
    ELSE StrLess(Tail(a), Tail(b))

\* os.path.basename (line 183)
basename(path) == SubSeq(path, RFind(path, "/") + 1, Len(path))

\* os.path.splitext(base)[1] for a name without "/" (line 191): from the
\* last dot on, unless only dots precede it
splitext_ext(base) ==
    LET d == RFind(base, ".")
    IN  IF d > 0 /\ \E k \in 1..(d - 1) : base[k] # "."
        THEN SubSeq(base, d, Len(base))
        ELSE <<>>

\* base_name.rsplit('.', 1)[0] (line 203)
rsplit_stem(base) ==
    LET d == RFind(base, ".")
    IN  IF d = 0 THEN base ELSE SubSeq(base, 1, d - 1)

\* name.endswith("/") (line 140)
EndsWithSlash(name) == name # <<>> /\ Last(name) = "/"

\* os.path.join(a, b) for a relative b (line 203)
path_join(a, b) ==
    IF a = <<>> \/ Last(a) = "/" THEN a \o b ELSE a \o <<"/">> \o b

\* the objects list_blobs returns for the input prefix, in listing order:
\* "m/", "m/a.pdf", "m/b.JPG", "m/c.bmp"
InputListing ==
    << <<"m", "/">>,
       <<"m", "/", "a", ".", "p", "d", "f">>,
       <<"m", "/", "b", ".", "J", "P", "G">>,
       <<"m", "/", "c", ".", "b", "m", "p">> >>

\* the prefix of output_bucket_uri (line 177): "o"
output_prefix == <<"o">>

\* "_tiles.pdf" (line 203)
TilesSuffix == <<"_", "t", "i", "l", "e", "s", ".", "p", "d", "f">>

\* line 193
PdfExt == <<".", "p", "d", "f">>

\* the allow-list with ".bmp" let in
ImageExts_WithBmp ==
    { <<".", "j", "p", "g">>, <<".", "j", "p", "e", "g">>,
      <<".", "p", "n", "g">>, <<".", "t", "i", "f">>,
      <<".", "t", "i", "f", "f">>, <<".", "b", "m", "p">> }

\* line 195
ImageExts ==
    { <<".", "j", "p", "g">>, <<".", "j", "p", "e", "g">>,
      <<".", "p", "n", "g">>, <<".", "t", "i", "f">>,
      <<".", "t", "i", "f", "f">> }

\* line 203
output_blob_path(file_path) ==
    path_join(output_prefix, rsplit_stem(basename(file_path)) \o TilesSuffix)

(***************************************************************************)
(* The tracker object (lines 112-125).  Its content is text: the names     *)
(* joined by "\n" on writing, stripped and split into lines on reading.    *)
(***************************************************************************)
Absent == [exists |-> FALSE, text |-> <<>>]

\* sorted(S)
RECURSIVE sorted(_)
sorted(S) ==
    IF S = {} THEN <<>>
    ELSE LET least == CHOOSE x \in S : \A y \in S \ {x} : StrLess(x, y)
         IN  <<least>> \o sorted(S \ {least})

\* "\n".join(seq) (line 125)
RECURSIVE join_lines(_)
join_lines(seq) ==
    IF seq = <<>> THEN <<>>
    ELSE IF Len(seq) = 1 THEN seq[1]
    ELSE seq[1] \o <<"\n">> \o join_lines(Tail(seq))

\* the whitespace str.strip() removes, among the characters of the model
IsSpace(c) == c \in {" ", "\n"}

\* str.strip() (line 118)
strip(text) ==
    LET keep == {k \in 1..Len(text) : ~IsSpace(text[k])}
    IN  IF keep = {} THEN <<>>
        ELSE SubSeq(text,
                    CHOOSE k \in keep : \A j \in keep : k <= j,
                    CHOOSE k \in keep : \A j \in keep : j <= k)

\* str.splitlines() (line 118), "\n" being the only line break of the model
RECURSIVE splitlines(_)
splitlines(text) ==
    IF text = <<>> THEN <<>>
    ELSE LET breaks == {k \in 1..Len(text) : text[k] = "\n"}
         IN  IF breaks = {} THEN <<text>>
             ELSE LET i == CHOOSE k \in breaks : \A j \in breaks : k <= j
                  IN  <<SubSeq(text, 1, i - 1)>>
                          \o splitlines(SubSeq(text, i + 1, Len(text)))

\* lines 112-118
load_tracker(blob) ==
    IF ~blob.exists THEN {}
    ELSE LET read == splitlines(strip(blob.text))
         IN  {read[k] : k \in 1..Len(read)}

\* the object written without the names already there
update_tracker_NoUnion(new_files, existing) ==
    [exists |-> TRUE, text |-> join_lines(sorted(new_files))]

\* lines 120-125: the object the call writes
update_tracker(new_files, existing) ==
    [exists |-> TRUE, text |-> join_lines(sorted(existing \union new_files))]

\* the names the calls of update_tracker below are tried on:
\* "a", "b", "ab" and "a " (with a trailing space)
TrackerNames == { <<"a">>, <<"b">>, <<"a", "b">>, <<"a", " ">> }

\* line 206: update_tracker({name}, load_tracker()), the first time with
\* k_existing as the loaded set
TrackerMark ==
    /\ k_pc = "mark"
    /\ tracker_blob' = update_tracker({k_name}, k_loaded)
    /\ k_written' = Append(k_written, tracker_blob')
    /\ k_pc' = "reload"
    /\ UNCHANGED <<k_existing, k_name, k_loaded, req, listing, outputs,
                   queue, e_vars, w_pc, w_run, c_vars, t_vars>>

\* line 206: load_tracker() of the next call, after two calls the end
TrackerReload ==
    /\ k_pc = "reload"
    /\ k_loaded' = load_tracker(tracker_blob)
    /\ k_pc' = IF Len(k_written) < 2 THEN "mark" ELSE "done"
    /\ UNCHANGED <<k_existing, k_name, k_written, p_vars, c_vars, t_vars>>

(***************************************************************************)
(* enqueue_tasks (lines 127-165)                                           *)
(***************************************************************************)
\* at most this many /enqueue_tasks requests are received
MaxEnqueueCalls == 2

MaxFilesChoices == {1, 2}
PartsChoices == {0, 2}
Requests == [max_files : MaxFilesChoices, horizontal_parts : PartsChoices]

Min(a, b) == IF a <= b THEN a ELSE b
Max(a, b) == IF a >= b THEN a ELSE b

\* the slice one element too long
SliceTo_OneMore(seq, n) ==
    IF n >= 0 THEN SubSeq(seq, 1, Min(n + 1, Len(seq)))
    ELSE SubSeq(seq, 1, Max(Len(seq) + n, 0))

\* line 140: seq[:n]; a negative n drops the last -n elements
SliceTo(seq, n) ==
    IF n >= 0 THEN SubSeq(seq, 1, Min(n, Len(seq)))
    ELSE SubSeq(seq, 1, Max(Len(seq) + n, 0))

\* the listing cut to max_files without looking at the tracker
EnqueueFiles_NoTrackerCheck(names, processed, max_files) ==
    SliceTo(SelectSeq(names, LAMBDA n : ~EndsWithSlash(n)), max_files)

\* line 140
EnqueueFiles(names, processed, max_files) ==
    SliceTo(SelectSeq(names,
                      LAMBDA n : n \notin processed /\ ~EndsWithSlash(n)),
            max_files)

\* lines 146-151
Payload(file_path) ==
    [file_path |-> file_path, horizontal_parts |-> req.horizontal_parts]

NoResponse == [status |-> 0, tareas_enviadas |-> 0]
EnqueueError == [status |-> 500, tareas_enviadas |-> 0]

\* lines 130-140: read the request, list the prefix, load the tracker and
\* choose the files; load_tracker may raise (line 163)
EnqueueList ==
    /\ e_pc = "idle"
    /\ e_calls < MaxEnqueueCalls
    /\ e_calls' = e_calls + 1
    /\ e_created' = <<>>
    /\ \E ok \in BOOLEAN :
         IF ok
         THEN /\ e_processed' = load_tracker(tracker_blob)
              /\ e_files' = EnqueueFiles(listing, e_processed',
                                         req.max_files)
              /\ e_resp' = NoResponse
              /\ e_pc' = "create"
         ELSE /\ e_processed' = {}
              /\ e_files' = <<>>
              /\ e_resp' = EnqueueError
              /\ e_pc' = "idle"
    /\ UNCHANGED <<req, listing, tracker_blob, outputs, queue, w_pc, w_run,
                   c_vars, t_vars, k_vars>>

\* lines 142-165: create_task for each file in order; the k-th call may
\* raise, which leaves the first k-1 tasks created and answers 500
EnqueueCreate ==
    /\ e_pc = "create"
    /\ \E k \in 0..Len(e_files) :
         /\ e_created' = [j \in 1..k |-> Payload(e_files[j])]
         /\ queue' = queue (+) SetToBag({Payload(e_files[j]) : j \in 1..k})
         /\ e_resp' = IF k = Len(e_files)
                      THEN [status |-> 200, tareas_enviadas |-> Len(e_files)]
                      ELSE EnqueueError
    /\ e_pc' = "idle"
    /\ UNCHANGED <<req, listing, tracker_blob, outputs, e_calls, e_processed, e_files,
                   w_pc, w_run, c_vars, t_vars, k_vars>>

(***************************************************************************)
(* process_single (lines 167-210)                                          *)
(***************************************************************************)
\* requests the service works on at the same time
Workers == {1, 2}

\* the raster cv2.imread returns (line 90) for each object of the bucket:
\* the page of the PDF is MaxImageHeight rows high, the images are 1 row
\* high, and all are 2 columns wide
MaxImageHeight == 3
ImageShape(file_path) ==
    IF Lower(splitext_ext(basename(file_path))) = PdfExt
    THEN [h |-> MaxImageHeight, w |-> 2]
    ELSE [h |-> 1, w |-> 2]

\* What the encoder does with a file: the number of the first candidate
\* that fits the budget, 0 when none does.
EncoderProfiles == {0, 1, 3}

SizeAt(fit_at, n) ==
    IF fit_at > 0 /\ n >= fit_at THEN MAX_FILE_SIZE ELSE MAX_FILE_SIZE + 1

\* lines 71-83 run to the end: the loop of CompressIteration from loop
\* state st, the n-th encode next
RECURSIVE CompressSearch(_, _, _)
CompressSearch(st, fit_at, n) ==
    LET r == CompressIteration(st, SizeAt(fit_at, n))
    IN  IF r.next = "continue"
        THEN CompressSearch([resize_factor |-> r.resize_factor,
                             quality |-> r.quality], fit_at, n + 1)
        ELSE [outcome |-> IF r.next = "break" THEN "returned" ELSE "raised",
              encodes |-> n,
              cand |-> r.cand]

\* lines 49-83 as one call
compress_image_adaptively(fit_at) ==
    CompressSearch([resize_factor |-> F_1_0, quality |-> InitialQuality],
                   fit_at, 1)

\* the locals of one run and what it has done so far
NoRun ==
    [file_path |-> <<>>, parts |-> 0,
     was_tracked |-> FALSE,   \* the name was in the tracker on arrival
     downloaded |-> FALSE,    \* line 190 done
     stages |-> <<>>,         \* the functions of lines 193-201 that returned
     tiles |-> <<>>, pages |-> <<>>,
     existing |-> {},         \* load_tracker() of line 206
     uploaded |-> FALSE,      \* line 204 done
     tracked |-> FALSE,       \* line 125 done
     response |-> "none"]     \* "procesado" | "skipped" | "error"

SetRun(w, r, pc) ==
    /\ w_run' = [w_run EXCEPT ![w] = r]
    /\ w_pc' = [w_pc EXCEPT ![w] = pc]

\* lines 208-210
Raise(w) == SetRun(w, [w_run[w] EXCEPT !.response = "error"], "responded")

\* lines 170-188: a task is dispatched to the worker
Receive(w) ==
    /\ w_pc[w] = "idle"
    /\ \E task \in BagToSet(queue) :
         /\ queue' = queue (-) SetToBag({task})
         /\ SetRun(w, [NoRun EXCEPT
                         !.file_path = task.file_path,
                         !.parts = task.horizontal_parts,
                         !.was_tracked =
                             task.file_path \in load_tracker(tracker_blob)],
                   "download")
    /\ UNCHANGED <<req, listing, tracker_blob, outputs, e_vars, c_vars, t_vars, k_vars>>

\* line 190
Download(w) ==
    /\ w_pc[w] = "download"
    /\ \E ok \in BOOLEAN :
         IF ok
         THEN SetRun(w, [w_run[w] EXCEPT !.downloaded = TRUE], "normalize")
         ELSE Raise(w)
    /\ UNCHANGED <<req, listing, tracker_blob, outputs, queue, e_vars, c_vars, t_vars, k_vars>>

\* lines 191-198
Normalize(w) ==
    /\ w_pc[w] = "normalize"
    /\ LET ext == Lower(splitext_ext(basename(w_run[w].file_path)))
       IN  IF ext = PdfExt
           THEN \E ok \in BOOLEAN :
                  IF ok
                  THEN SetRun(w, [w_run[w] EXCEPT !.stages =
                              Append(@, "extract_first_page_from_pdf")],
                              "split")
                  ELSE Raise(w)
           ELSE IF ext \in ImageExts
           THEN \E fit_at \in EncoderProfiles :
                  IF compress_image_adaptively(fit_at).outcome = "returned"
                  THEN SetRun(w, [w_run[w] EXCEPT !.stages =
                              Append(@, "compress_image_adaptively")],
                              "split")
                  ELSE Raise(w)
           ELSE SetRun(w, [w_run[w] EXCEPT !.response = "skipped"],
                       "responded")
    /\ UNCHANGED <<req, listing, tracker_blob, outputs, queue, e_vars, c_vars, t_vars, k_vars>>

\* line 200
Split(w) ==
    /\ w_pc[w] = "split"
    /\ LET img == ImageShape(w_run[w].file_path)
           r == split_image_horizontally(img.h, img.w, w_run[w].parts)
       IN  IF r.raised
           THEN Raise(w)
           ELSE SetRun(w, [w_run[w] EXCEPT
                             !.tiles = r.tiles,
                             !.stages = Append(@, "split_image_horizontally")],
                       "assemble")
    /\ UNCHANGED <<req, listing, tracker_blob, outputs, queue, e_vars, c_vars, t_vars, k_vars>>

\* line 201; converting or writing a page may raise
Assemble(w) ==
    /\ w_pc[w] = "assemble"
    /\ \E ok \in BOOLEAN :
         IF ok
         THEN SetRun(w, [w_run[w] EXCEPT
                           !.pages = tiles_to_pdf(w_run[w].tiles),
                           !.stages = Append(@, "tiles_to_pdf")],
                     "upload")
         ELSE Raise(w)
    /\ UNCHANGED <<req, listing, tracker_blob, outputs, queue, e_vars, c_vars, t_vars, k_vars>>

\* the upload with its failure swallowed
Upload_ErrorSwallowed(w) ==
    /\ w_pc[w] = "upload"
    /\ \E ok \in BOOLEAN :
         IF ok
         THEN /\ outputs' = outputs \union
                              {output_blob_path(w_run[w].file_path)}
              /\ SetRun(w, [w_run[w] EXCEPT !.uploaded = TRUE],
                        "load_tracker")
         ELSE /\ outputs' = outputs
              /\ SetRun(w, w_run[w], "load_tracker")
    /\ UNCHANGED <<req, listing, tracker_blob, queue, e_vars, c_vars,
                   t_vars, k_vars>>

\* lines 203-204
Upload(w) ==
    /\ w_pc[w] = "upload"
    /\ \E ok \in BOOLEAN :
         IF ok
         THEN /\ outputs' = outputs \union
                              {output_blob_path(w_run[w].file_path)}
              /\ SetRun(w, [w_run[w] EXCEPT !.uploaded = TRUE],
                        "load_tracker")
         ELSE /\ outputs' = outputs
              /\ Raise(w)
    /\ UNCHANGED <<req, listing, tracker_blob, queue, e_vars, c_vars, t_vars, k_vars>>

\* line 206, the argument load_tracker()
LoadTracker(w) ==
    /\ w_pc[w] = "load_tracker"
    /\ \E ok \in BOOLEAN :
         IF ok
         THEN SetRun(w, [w_run[w] EXCEPT
                           !.existing = load_tracker(tracker_blob)],
                     "update_tracker")
         ELSE Raise(w)
    /\ UNCHANGED <<req, listing, tracker_blob, outputs, queue, e_vars, c_vars, t_vars, k_vars>>

\* lines 206-207, the call update_tracker({file_path}, existing)
UpdateTracker(w) ==
    /\ w_pc[w] = "update_tracker"
    /\ \E ok \in BOOLEAN :
         IF ok
         THEN /\ tracker_blob' = update_tracker({w_run[w].file_path},
                                                w_run[w].existing)
              /\ SetRun(w, [w_run[w] EXCEPT !.tracked = TRUE,
                                            !.response = "procesado"],
                        "responded")
         ELSE /\ tracker_blob' = tracker_blob
              /\ Raise(w)
    /\ UNCHANGED <<req, listing, outputs, queue, e_vars, c_vars, t_vars, k_vars>>

\* the response is sent and the worker is free again
Respond(w) ==
    /\ w_pc[w] = "responded"
    /\ SetRun(w, NoRun, "idle")
    /\ UNCHANGED <<req, listing, tracker_blob, outputs, queue, e_vars, c_vars, t_vars, k_vars>>

(***************************************************************************)
(* Initial states and specifications                                       *)
(***************************************************************************)
PipelineIdle ==
    /\ req = [max_files |-> 1, horizontal_parts |-> 2]
    /\ listing = InputListing
    /\ tracker_blob = Absent
    /\ outputs = {}
    /\ queue = EmptyBag
    /\ e_pc = "idle"
    /\ e_calls = 0
    /\ e_processed = {}
    /\ e_files = <<>>
    /\ e_created = <<>>
    /\ e_resp = NoResponse
    /\ w_pc = [w \in Workers |-> "idle"]
    /\ w_run = [w \in Workers |-> NoRun]

TilerIdle ==
    /\ t_pc = "call" /\ t_h = 1 /\ t_w = 1 /\ t_parts = 1 /\ tiles = <<>>
    /\ t_pdf = "none" /\ t_pages = <<>>

TrackerIdle ==
    /\ k_pc = "mark" /\ k_existing = {} /\ k_name = <<>> /\ k_loaded = {}
    /\ k_written = <<>>

CompressIdle ==
    /\ c_pc = "start"
    /\ c_in = [original_size |-> MAX_FILE_SIZE, pixels |-> MegapixelLimit]
    /\ c_downscaled = FALSE
    /\ resize_factor = F_1_0
    /\ quality = InitialQuality
    /\ temp_file = NoFile
    /\ output_file = NoFile
    /\ encoded = <<>>

InitCompress ==
    /\ c_pc = "start"
    /\ c_in \in [original_size : OriginalSizes, pixels : PixelCounts]
    /\ c_downscaled = FALSE
    /\ resize_factor = F_1_0
    /\ quality = InitialQuality
    /\ temp_file = NoFile
    /\ output_file = NoFile
    /\ encoded = <<>>
    /\ TilerIdle
    /\ PipelineIdle
    /\ TrackerIdle

NextCompress == CompressOpen \/ CompressLoop \/ CompressCopy

SpecCompress == InitCompress /\ [][NextCompress]_vars

InitTiler ==
    /\ t_pc = "call"
    /\ t_h \in 1..MaxHeight
    /\ t_w \in 1..MaxWidth
    /\ t_parts \in (-1)..(MaxHeight + 1)
    /\ tiles = <<>>
    /\ t_pdf = "none"
    /\ t_pages = <<>>
    /\ CompressIdle
    /\ PipelineIdle
    /\ TrackerIdle

NextTiler == TilerSplit \/ TilerToPdf

SpecTiler == InitTiler /\ [][NextTiler]_vars

InitTracker ==
    /\ k_pc = "mark"
    /\ k_existing \in SUBSET TrackerNames
    /\ k_name \in TrackerNames
    /\ k_loaded = k_existing
    /\ k_written = <<>>
    /\ PipelineIdle
    /\ CompressIdle
    /\ TilerIdle

NextTracker == TrackerMark \/ TrackerReload

SpecTracker == InitTracker /\ [][NextTracker]_vars

Init ==
    /\ req \in Requests
    /\ listing = InputListing
    /\ tracker_blob = Absent
    /\ outputs = {}
    /\ queue = EmptyBag
    /\ e_pc = "idle"
    /\ e_calls = 0
    /\ e_processed = {}
    /\ e_files = <<>>
    /\ e_created = <<>>
    /\ e_resp = NoResponse
    /\ w_pc = [w \in Workers |-> "idle"]
    /\ w_run = [w \in Workers |-> NoRun]
    /\ CompressIdle
    /\ TilerIdle
    /\ TrackerIdle

\* enqueue_tasks alone, over the requests, listings and trackers it may meet
\* line 133: int(data.get("max_files", 5)) is any integer
EnqueueMaxFiles == (-2)..4

\* line 138: bucket.list_blobs(prefix=...) in name order
Listings ==
    {SelectSeq(InputListing, LAMBDA n : n \in S) :
        S \in SUBSET {InputListing[k] : k \in 1..Len(InputListing)}}

\* line 139: the tracker object the call finds
InitialTrackers ==
    {Absent} \union
    {update_tracker(S, {}) : S \in SUBSET {InputListing[2], InputListing[3]}}

InitEnqueue ==
    /\ req \in [max_files : EnqueueMaxFiles, horizontal_parts : {2}]
    /\ listing \in Listings
    /\ tracker_blob \in InitialTrackers
    /\ outputs = {}
    /\ queue = EmptyBag
    /\ e_pc = "idle"
    /\ e_calls = 0
    /\ e_processed = {}
    /\ e_files = <<>>
    /\ e_created = <<>>
    /\ e_resp = NoResponse
    /\ w_pc = [w \in Workers |-> "idle"]
    /\ w_run = [w \in Workers |-> NoRun]
    /\ CompressIdle
    /\ TilerIdle
    /\ TrackerIdle

NextEnqueue == EnqueueList \/ EnqueueCreate

SpecEnqueue == InitEnqueue /\ [][NextEnqueue]_vars

Next ==
    \/ EnqueueList
    \/ EnqueueCreate
    \/ \E w \in Workers :
         \/ Receive(w)
         \/ Download(w)
         \/ Normalize(w)
         \/ Split(w)
         \/ Assemble(w)
         \/ Upload(w)
         \/ LoadTracker(w)
         \/ UpdateTracker(w)
         \/ Respond(w)

Spec == Init /\ [][Next]_vars

(***************************************************************************)
(* Claims about split_image_horizontally (SpecTiler)                       *)
(***************************************************************************)
\* the tiles that hold row `row`
TilesHolding(row) ==
    {k \in 1..Len(tiles) : tiles[k].y1 <= row /\ row < tiles[k].y2}

\* C1: for 1 <= N <= H the returned tiles partition the rows [0,H): every
\* row lies in exactly one tile, the first tile starts at row 0, the last
\* ends at row H, consecutive tiles are adjacent and run top to bottom, and
\* every tile spans the columns [0,W).
C1_TilingCoverage ==
    (t_pc = "returned" /\ 1 <= t_parts /\ t_parts <= t_h) =>
        /\ Len(tiles) >= 1
        /\ tiles[1].y1 = 0
        /\ Last(tiles).y2 = t_h
        /\ \A k \in 1..(Len(tiles) - 1) : tiles[k].y2 = tiles[k + 1].y1
        /\ \A k \in 1..Len(tiles) : tiles[k].y1 < tiles[k].y2
        /\ \A row \in 0..(t_h - 1) : Cardinality(TilesHolding(row)) = 1
        /\ \A k \in 1..Len(tiles) : tiles[k].x1 = 0 /\ tiles[k].x2 = t_w

C1_Witness ==
    /\ t_pc = "returned" /\ t_h = 5 /\ t_parts = 3 /\ t_w = 2
    /\ Len(tiles) = 3
    /\ Last(tiles).y2 - Last(tiles).y1 = 3

\* C2: for every N >= 1 the call returns (it does not raise) and returns
\* exactly N tiles, whether or not N divides H.
C2_TileCount ==
    (t_pc # "call" /\ t_parts >= 1) =>
        (t_pc = "returned" /\ Len(tiles) = t_parts)

C2_Witness ==
    /\ t_pc = "returned" /\ t_parts >= 2 /\ t_parts <= t_h
    /\ t_h % t_parts # 0
    /\ Len(tiles) = t_parts

(***************************************************************************)
(* Claims about compress_image_adaptively (SpecCompress)                   *)
(***************************************************************************)
\* C3: whenever the call returns without raising, the file copied to the
\* output path is the last candidate encoded and its size is <= the budget.
C3_BudgetGuarantee ==
    /\ c_pc = "returned" =>
         /\ encoded # <<>>
         /\ output_file = Last(encoded)
         /\ output_file.size <= MAX_FILE_SIZE
    /\ output_file # NoFile => c_pc = "returned"

C3_Witness ==
    /\ c_pc = "returned"
    /\ Len(encoded) = 5
    /\ output_file.size = MAX_FILE_SIZE

\* C4: across the loop neither quality nor resize_factor ever increases; a
\* pass leaves both unchanged or lowers exactly one of them.
C4_Step ==
    c_pc = "loop" =>
        \/ resize_factor' = resize_factor /\ quality' = quality
        \/ FGt(resize_factor, resize_factor') /\ quality' = quality
        \/ resize_factor' = resize_factor /\ quality' < quality

C4_Monotone == [][C4_Step]_vars

C4_Witness ==
    /\ c_pc = "loop"
    /\ quality < InitialQuality
    /\ FGt(F_1_0, resize_factor)

\* C5: the loop ends, by fitting or by raising, after at most 12 encodes:
\* never more than 12 candidates are encoded, and after the 12th the loop
\* is not entered again.
C5_AtMost12Encodes ==
    /\ Len(encoded) <= 12
    /\ Len(encoded) = 12 => c_pc # "loop"

C5_Witness == c_pc = "raised" /\ Len(encoded) = 12

\* C6: the search stops at the first candidate that fits: every candidate
\* but the last one encoded exceeded the budget, and once the loop has
\* ended without raising the last one fits.
C6_FirstFit ==
    /\ \A k \in 1..(Len(encoded) - 1) : encoded[k].size > MAX_FILE_SIZE
    /\ c_pc \in {"fits", "returned"} =>
         (encoded # <<>> /\ Last(encoded).size <= MAX_FILE_SIZE)
    /\ c_pc \in {"loop", "raised"} =>
         \A k \in 1..Len(encoded) : encoded[k].size > MAX_FILE_SIZE

C6_Witness ==
    /\ c_pc = "fits"
    /\ Len(encoded) = 4
    /\ Last(encoded).size < MAX_FILE_SIZE

\* C7: quality is exhausted before resolution is touched: resize_factor
\* below 1.0 implies quality = min_quality, and a pass lowers resize_factor
\* only when quality is already min_quality.
C7_State == FGt(F_1_0, resize_factor) => quality = min_quality

C7_Step == FGt(resize_factor, resize_factor') => quality = min_quality

C7_QualityFirst == [](C7_State) /\ [][C7_Step]_vars

C7_Witness ==
    /\ c_pc = "loop"
    /\ FGt(F_1_0, resize_factor)
    /\ quality = min_quality
    /\ Len(encoded) = 3

\* C8: the call raises exactly when the candidate encoded at both floors
\* (quality = min_quality and resize_factor = min_resize) exceeds the
\* budget.
AtBothFloors(cand) ==
    cand.quality = min_quality /\ cand.resize_factor = min_resize

C8_RaisesExactlyAtFloors ==
    (c_pc = "raised") <=>
        /\ encoded # <<>>
        /\ AtBothFloors(Last(encoded))
        /\ Last(encoded).size > MAX_FILE_SIZE

(***************************************************************************)
(* Claims about process_single and enqueue_tasks (Spec)                    *)
(***************************************************************************)
\* C9: a run of process_single that ends in an error has uploaded no
\* output object and has not added its file to the tracker.
C9_FailureLeavesNothing ==
    \A w \in Workers :
        (w_pc[w] = "responded" /\ w_run[w].response = "error") =>
            (~w_run[w].uploaded /\ ~w_run[w].tracked)

\* C10 as stated: a run of process_single for a file whose name was in the
\* tracker on arrival downloads nothing, runs no stage, uploads nothing and
\* writes no tracker.
C10_TrackedFileBypassed ==
    \A w \in Workers :
        w_run[w].was_tracked =>
            /\ ~w_run[w].downloaded
            /\ w_run[w].stages = <<>>
            /\ ~w_run[w].uploaded
            /\ ~w_run[w].tracked

\* C10 as amended: the bypass is made by enqueue_tasks.  The files it
\* chooses, and the tasks it creates, never name an object that is in the
\* tracker the call loaded, and the tracker is loaded before any task is
\* created.
C10_EnqueueBypassesTracked ==
    /\ \A k \in 1..Len(e_files) : e_files[k] \notin e_processed
    /\ \A k \in 1..Len(e_created) :
         e_created[k].file_path \notin e_processed
    /\ e_pc = "create" => e_created = <<>>

C10_Witness ==
    /\ e_pc = "idle"
    /\ e_resp.status = 200
    /\ InputListing[2] \in e_processed
    /\ Len(e_created) = 2
    /\ e_created[1].file_path = InputListing[3]

\* the extensions the claims of the format dispatch name, lower case
NamedExts ==
    { <<".", "p", "d", "f">>, <<".", "j", "p", "g">>,
      <<".", "j", "p", "e", "g">>, <<".", "p", "n", "g">>,
      <<".", "t", "i", "f">>, <<".", "t", "i", "f", "f">> }

\* worker w is in a run for a file whose extension, compared without
\* regard to case, is none of the named ones
UnsupportedRun(w) ==
    /\ w_pc[w] # "idle"
    /\ Lower(splitext_ext(basename(w_run[w].file_path))) \notin NamedExts

\* C11 as stated: every run for a file with an unsupported extension ends
\* in the skip response.
C11_UnsupportedAlwaysSkipped ==
    \A w \in Workers :
        (UnsupportedRun(w) /\ w_pc[w] = "responded") =>
            w_run[w].response = "skipped"

\* C11 as amended: a run for a file with an unsupported extension runs no
\* stage, uploads nothing and writes no tracker; it ends in the skip
\* response when its download succeeded and in an error only when the
\* download failed; and no step of such a run changes the output bucket
\* or the tracker object.
C11_State ==
    \A w \in Workers :
        UnsupportedRun(w) =>
            /\ w_pc[w] \in {"download", "normalize", "responded"}
            /\ w_run[w].stages = <<>>
            /\ ~w_run[w].uploaded
            /\ ~w_run[w].tracked
            /\ w_pc[w] = "responded" =>
                 w_run[w].response =
                     IF w_run[w].downloaded THEN "skipped" ELSE "error"

C11_Step ==
    \A w \in Workers :
        (UnsupportedRun(w) /\ <<w_pc[w], w_run[w]>>' # <<w_pc[w], w_run[w]>>)
            => (outputs' = outputs /\ tracker_blob' = tracker_blob)

C11_UnsupportedSkipped == [](C11_State) /\ [][C11_Step]_vars

C11_Witness ==
    \E w \in Workers :
        /\ w_pc[w] = "responded"
        /\ w_run[w].file_path = InputListing[4]
        /\ w_run[w].downloaded
        /\ w_run[w].response = "skipped"
        /\ tracker_blob.exists

(***************************************************************************)
(* Further claims about split_image_horizontally (SpecTiler)               *)
(***************************************************************************)
\* C12: a parts count N < 1 or N > H is rejected with an error before any
\* tile is produced, and no returned tile has zero height.
C12_InvalidPartsRejected ==
    /\ (t_pc # "call" /\ (t_parts < 1 \/ t_parts > t_h)) =>
          (t_pc = "raised" /\ tiles = <<>>)
    /\ \A k \in 1..Len(tiles) : tiles[k].y2 > tiles[k].y1

\* C14: the document tiles_to_pdf writes has one page per tile, page i
\* made from tile i and of its size, so the pages are in the order of the
\* tiles; and the call raises only when a tile has no rows.
C14_PagesFollowTiles ==
    /\ t_pdf = "written" =>
         /\ Len(t_pages) = Len(tiles)
         /\ \A k \in 1..Len(tiles) :
              /\ t_pages[k].image = tiles[k]
              /\ t_pages[k].rows = tiles[k].y2 - tiles[k].y1
              /\ t_pages[k].cols = t_w
    /\ t_pdf = "raised" => HasEmptyTile(tiles)

C14_Witness ==
    /\ t_pdf = "written"
    /\ t_h = 5 /\ t_parts = 3
    /\ Len(t_pages) = 3
    /\ t_pages[1].image.y1 = 0
    /\ t_pages[3].image.y2 = 5

(***************************************************************************)
(* Claims about update_tracker (SpecTracker)                               *)
(***************************************************************************)
\* C13: update_tracker({f}, S) persists the set S \union {f}, and marking
\* f again against the tracker that resulted writes the same object again.
C13_IdempotentUnion ==
    /\ (Len(k_written) >= 1 /\ k_pc # "reload") =>
          k_loaded = k_existing \union {k_name}
    /\ Len(k_written) = 2 => k_written[2] = k_written[1]

(***************************************************************************)
(* Further claims about process_single (Spec)                              *)
(***************************************************************************)
\* the stage names of a run, as a set
StagesOf(w) == {w_run[w].stages[k] : k \in 1..Len(w_run[w].stages)}

\* C15: every run that uploaded an output went through the compressor and
\* its budget check before the tiler and the assembler, each once and in
\* that order.
C15_AllStagesInOrder ==
    \A w \in Workers :
        w_run[w].uploaded =>
            \E i, j, k \in 1..Len(w_run[w].stages) :
                /\ i < j /\ j < k
                /\ w_run[w].stages[i] = "compress_image_adaptively"
                /\ w_run[w].stages[j] = "split_image_horizontally"
                /\ w_run[w].stages[k] = "tiles_to_pdf"
                /\ Cardinality(StagesOf(w)) = Len(w_run[w].stages)

\* C16: a tracker write replaces the object by what the writer loaded
\* earlier plus its own name, whatever was written in between; so of two
\* concurrent runs that both load, both write and both answer "procesado"
\* the tracker can end without one of the two names (C16_Witness).
C16_Step ==
    \A w \in Workers :
        (w_pc[w] = "update_tracker" /\ w_run[w]'.tracked) =>
            load_tracker(tracker_blob') =
                w_run[w].existing \union {w_run[w].file_path}

C16_LastWriterWins == [][C16_Step]_vars

C16_Witness ==
    /\ w_pc[1] = "responded" /\ w_pc[2] = "responded"
    /\ w_run[1].response = "procesado" /\ w_run[2].response = "procesado"
    /\ w_run[1].tracked /\ w_run[2].tracked
    /\ w_run[1].file_path # w_run[2].file_path
    /\ w_run[1].file_path \notin load_tracker(tracker_blob)
    /\ w_run[2].file_path \in load_tracker(tracker_blob)

\* C19: a run writes its file name to the tracker only after its own
\* upload: a run that has written the tracker has uploaded, its output
\* object is in the bucket, and every change of the tracker object is made
\* by a run that has already uploaded.
C19_State ==
    \A w \in Workers :
        w_run[w].tracked =>
            /\ w_run[w].uploaded
            /\ output_blob_path(w_run[w].file_path) \in outputs

C19_Step ==
    tracker_blob' # tracker_blob =>
        \E w \in Workers :
            /\ w_pc[w] = "update_tracker"
            /\ w_run[w].uploaded
            /\ output_blob_path(w_run[w].file_path) \in outputs
            /\ w_run[w].file_path \in load_tracker(tracker_blob')

C19_UploadBeforeTracker == [](C19_State) /\ [][C19_Step]_vars

C19_Witness ==
    \E w \in Workers :
        /\ w_pc[w] = "responded"
        /\ w_run[w].tracked
        /\ w_run[w].file_path = InputListing[3]
        /\ output_blob_path(InputListing[3]) \in outputs
        /\ InputListing[3] \in load_tracker(tracker_blob)

(***************************************************************************)
(* The failing schedule of compress_image_adaptively (SpecCompress)        *)
(***************************************************************************)
\* the steps of the search between consecutive candidates
QualitySteps ==
    {k \in 1..(Len(encoded) - 1) : encoded[k + 1].quality < encoded[k].quality}

ResizeSteps ==
    {k \in 1..(Len(encoded) - 1) :
        encoded[k + 1].resize_factor # encoded[k].resize_factor}

\* 0.4999999999999996 = 0.5 - 7 * 2^-54
F_LastResize == [hi |-> 67108863, lo |-> 1073741768]

\* C17 as stated: a search that fails has made 2 quality steps of 5 from 95
\* to 90 and then 10 resize steps of 0.05 from 1.0 to 0.5.
C17_TwoQualitySteps ==
    c_pc = "raised" =>
        /\ Cardinality(QualitySteps) = 2
        /\ Cardinality(ResizeSteps) = 10
        /\ encoded[1].quality = 95 /\ Last(encoded).quality = 90
        /\ encoded[1].resize_factor = F_1_0
        /\ Last(encoded).resize_factor = min_resize
        /\ \A q \in QualitySteps : \A r \in ResizeSteps : q < r

\* C17: a search that fails has encoded 12 candidates: one quality step of
\* 5 from 95 to 90, then 10 resize steps of 0.05 at quality 90, from 1.0
\* down to 0.4999999999999996, the first value not above 0.5.
C17_FailingSchedule ==
    c_pc = "raised" =>
        /\ Len(encoded) = 12
        /\ QualitySteps = {1}
        /\ ResizeSteps = 2..11
        /\ encoded[1].quality = 95 /\ encoded[1].resize_factor = F_1_0
        /\ encoded[2].quality = 90 /\ encoded[2].resize_factor = F_1_0
        /\ \A k \in 2..11 :
              /\ encoded[k + 1].quality = 90
              /\ encoded[k + 1].resize_factor =
                     FSub(encoded[k].resize_factor, F_0_05)
              /\ FGt(encoded[k].resize_factor, min_resize)
        /\ Last(encoded).resize_factor = F_LastResize
        /\ FGt(min_resize, Last(encoded).resize_factor)

C17_Witness ==
    /\ c_pc = "raised"
    /\ Len(encoded) = 12
    /\ encoded[2].quality = 90
    /\ encoded[3].resize_factor # F_1_0
    /\ Last(encoded).resize_factor = F_LastResize

(***************************************************************************)
(* Tile heights (SpecTiler)                                                *)
(***************************************************************************)
TileHeightOf(k) == tiles[k].y2 - tiles[k].y1

\* C18: for 1 <= N <= H every tile but the last has height floor(H/N) and
\* the last has height H - (N-1)*floor(H/N), which is floor(H/N) plus
\* H mod N, at most N-1 rows more.
C18_TileHeights ==
    (t_pc = "returned" /\ 1 <= t_parts /\ t_parts <= t_h) =>
        /\ \A k \in 1..(t_parts - 1) : TileHeightOf(k) = t_h \div t_parts
        /\ TileHeightOf(t_parts) =
               t_h - (t_parts - 1) * (t_h \div t_parts)
        /\ TileHeightOf(t_parts) - (t_h \div t_parts) = t_h % t_parts
        /\ TileHeightOf(t_parts) - (t_h \div t_parts) <= t_parts - 1

C18_Witness ==
    /\ t_pc = "returned" /\ t_h = 5 /\ t_parts = 2
    /\ TileHeightOf(1) = 2
    /\ TileHeightOf(2) = 3

(***************************************************************************)
(* The guarantee of enqueue_tasks (SpecEnqueue)                            *)
(***************************************************************************)
\* the object names of the tasks created by the current call, in order
CreatedNames == [j \in 1..Len(e_created) |-> e_created[j].file_path]

PositionOf(name) == CHOOSE p \in 1..Len(listing) : listing[p] = name

\* listed names the call may enqueue: not in the tracker as loaded, not
\* ending with "/"
EligiblePositions ==
    {p \in 1..Len(listing) :
        /\ listing[p] \notin e_processed
        /\ listing[p][Len(listing[p])] # "/"}

\* distinct listed names in listing order, none tracked, none a folder
\* marker, and the count the answer reports
CreatedAreEligible ==
    /\ \A i, j \in 1..Len(CreatedNames) :
          i < j => CreatedNames[i] # CreatedNames[j]
    /\ \A j \in 1..Len(CreatedNames) :
          /\ \E p \in 1..Len(listing) : listing[p] = CreatedNames[j]
          /\ PositionOf(CreatedNames[j]) \in EligiblePositions
          /\ CreatedNames[j] \notin load_tracker(tracker_blob)
    /\ \A i, j \in 1..Len(CreatedNames) :
          i < j => PositionOf(CreatedNames[i]) < PositionOf(CreatedNames[j])
    /\ e_resp.status = 200 => e_resp.tareas_enviadas = Len(CreatedNames)

\* C20 as stated: the tasks created are for distinct eligible listed names
\* in listing order, and their number is at most max_files and is the
\* tareas_enviadas reported, for every max_files.
C20_AtMostMaxFiles ==
    /\ CreatedAreEligible
    /\ CreatedNames # <<>> => Len(CreatedNames) <= req.max_files

\* C20: the tasks created are for distinct eligible listed names in listing
\* order; a 200 answer reports their number; for max_files >= 0 there are
\* at most max_files of them, and for max_files < 0 the slice drops the last
\* -max_files eligible names instead, so there are at most
\* max(eligible + max_files, 0) of them, which is more than max_files.
C20_EnqueueGuarantee ==
    /\ CreatedAreEligible
    /\ req.max_files >= 0 =>
          /\ Len(CreatedNames) <= req.max_files
          /\ e_resp.status = 200 =>
                Len(CreatedNames) =
                    Min(Cardinality(EligiblePositions), req.max_files)
    /\ req.max_files < 0 =>
          /\ Len(CreatedNames) <=
                 Max(Cardinality(EligiblePositions) + req.max_files, 0)
          /\ e_resp.status = 200 =>
                Len(CreatedNames) =
                    Max(Cardinality(EligiblePositions) + req.max_files, 0)

C20_Witness ==
    /\ e_pc = "idle" /\ e_resp.status = 200
    /\ listing = InputListing
    /\ e_processed = {InputListing[2]}
    /\ req.max_files = -1
    /\ CreatedNames = <<InputListing[3]>>
    /\ e_resp.tareas_enviadas = 1

=============================================================================
